---- MODULE Spec2Model ----
(***************************************************************************)
(* Action Segment Detection Engine of AI-Clipping-Project                  *)
(* (src/AI-Clipping-Project/processor.py, class VideoProcessor).           *)
(*                                                                         *)
(* One invocation of detect_high_action_segments is a small state machine  *)
(*   SELECT_STRATEGY -> {REMOTE, LOCAL} -> DONE                            *)
(* whose steps are the three methods detect_high_action_segments,          *)
(* _detect_segments_with_api and _detect_segments_with_motion.  Further    *)
(* specifications add a second invocation on the same VideoProcessor       *)
(* (RerunSpec), a second run with another MOTION_THRESHOLD                 *)
(* (ThresholdSpec), synthetic clips at the configured stride               *)
(* (ScenarioSpec) and the two callers with their fallback segment          *)
(* (CallerSpec).                                                           *)
(*                                                                         *)
(* Arithmetic.  The code computes with floats; the model computes the same *)
(* quantities exactly, as integers over a common denominator:              *)
(*   - a time t seconds of a video with frame rate fps is the integer      *)
(*     2*fps*t ("ticks" of 1/(2*fps) s): frame f has time 2*f, and         *)
(*     MIN_CLIP_LENGTH seconds are 2*fps*MIN_CLIP_LENGTH ticks, so that    *)
(*     (MIN_CLIP_LENGTH - duration)/2 is an integer;                       *)
(*   - a normalized score is its numerator over score_range, a window      *)
(*     average is its numerator over 2*window_size*score_range;            *)
(*   - avg > mean + 0.5*std is decided without the square root.            *)
(* Floating-point rounding is therefore not modelled.                      *)
(***************************************************************************)
EXTENDS Integers, Sequences, FiniteSets, TLC

(* ------------------------------ config.py ------------------------------ *)
MIN_CLIP_LENGTH == 15
MAX_CLIP_LENGTH == 60
TARGET_CLIP_LENGTH == 30
FRAME_SAMPLE_RATE == 2
MOTION_THRESHOLD == 15        \* 0.15, in hundredths

(* ------------------------------- bounds -------------------------------- *)
MaxFps == 2          \* frame rates 0..MaxFps (0: the container reports none)
MaxSamples == 7      \* motion samples per video
MaxRaw == 2          \* raw motion magnitudes 0..MaxRaw in videos of at most
FineSamples == 5     \* FineSamples samples, 0 or MaxRaw in longer ones
MaxItems == 2        \* items in a remote 'segments' list
MaxCalls == 2        \* invocations on one VideoProcessor

None == "None"       \* Python's None, for the API key
NoExc == "none"      \* no exception

\* values of self.frame_sample_rate (the stride), of the segment_duration
\* argument and of the CLIPPING_API_KEY environment variable
StrideValues == {5, 30}
\* (<<>> is segment_duration=None, <<t>> is segment_duration=t)
DurationArgs == {<<>>, <<10>>, <<15>>, <<40>>, <<120>>}
ApiKeys == {None, "", "key"}
\* values of MOTION_THRESHOLD a deployment may configure, in hundredths
ThresholdValues == {MOTION_THRESHOLD, 50, 90}

(* ------------------------------ the video ------------------------------ *)
\* Motion samples of a video with `frames` readable frames: the sampled
\* frames are 0, stride, 2*stride, ...; the first one yields no sample.
NumMotionSamples(frames, stride) ==
    IF frames = 0 THEN 0 ELSE (frames - 1) \div stride

FrameCounts(stride) == {0} \cup {k * stride + 1 : k \in 0..MaxSamples}

\* What cv2 finds at video_path: whether the source opens, CAP_PROP_FPS, the
\* number of frames cap.read() delivers, and the mean optical-flow magnitude
\* of every sampled frame pair.
NoVideo == [opens |-> FALSE, fps |-> 0, frames |-> 0, flow |-> <<>>]

RawValues(k) == IF k <= FineSamples THEN 0..MaxRaw ELSE {0, MaxRaw}

FlowSeqs == UNION { [1..k -> RawValues(k)] : k \in 0..MaxSamples }

VideoFiles(stride) ==
    { v \in [opens : BOOLEAN, fps : 0..MaxFps, frames : FrameCounts(stride),
             flow : FlowSeqs] :
        IF v.opens THEN Len(v.flow) = NumMotionSamples(v.frames, stride)
        ELSE v = NoVideo }

\* A synthetic clip at the configured stride: `frames` frames at `fps`, whose
\* sampled frames lo..hi show motion (magnitude MaxRaw) and the others none.
BurstVideo(fps, frames, lo, hi) ==
    [opens |-> TRUE, fps |-> fps, frames |-> frames,
     flow |-> [j \in 1..NumMotionSamples(frames, FRAME_SAMPLE_RATE) |->
                 IF lo <= j * FRAME_SAMPLE_RATE /\ j * FRAME_SAMPLE_RATE <= hi
                 THEN MaxRaw ELSE 0]]

\* The clips tried with target duration T: 30 fps clips of 30 s and 60 s with
\* no motion, or with one burst of motion between two of the frames 300, 600,
\* 900, 1200.  For a target below MIN_CLIP_LENGTH, where every window is
\* extended by seconds, they are 2 fps clips of 35 to 38 frames instead:
\* their times are binary fractions, on which the exact arithmetic used here
\* and the floating-point arithmetic of the code agree.
ScenarioVideos(T) ==
    IF T < MIN_CLIP_LENGTH
    THEN { BurstVideo(2, frames, lo, hi) :
             frames \in {35, 36, 38}, lo \in {2, 12}, hi \in {0, 20, 30} }
    ELSE { BurstVideo(30, frames, lo, hi) :
             frames \in {900, 1800}, lo \in {300, 600, 900},
             hi \in {0, 600, 1200} }

(* ------------------------------ helpers -------------------------------- *)
RECURSIVE SumOf(_, _, _)
\* sum of f[lo..hi]
SumOf(f, lo, hi) ==
    IF lo > hi THEN 0
    ELSE IF lo = hi THEN f[lo]
    ELSE LET mid == (lo + hi) \div 2
         IN SumOf(f, lo, mid) + SumOf(f, mid + 1, hi)

Max2(a, b) == IF a >= b THEN a ELSE b
Min2(a, b) == IF a <= b THEN a ELSE b

SeqMax(s) == CHOOSE m \in {s[i] : i \in DOMAIN s} : \A i \in DOMAIN s : s[i] <= m
SeqMin(s) == CHOOSE m \in {s[i] : i \in DOMAIN s} : \A i \in DOMAIN s : s[i] >= m

(* ------------------- _remove_overlapping_segments ---------------------- *)
\* as SegOverlaps, but counting segments that touch at an endpoint as
\* overlapping
SegOverlapsOrTouches(seg, existing) ==
    ~(seg.end < existing.start \/ seg.start > existing.end)

\* line 289: not (seg.end <= existing.start or seg.start >= existing.end)
SegOverlaps(seg, existing) ==
    ~(seg.end <= existing.start \/ seg.start >= existing.end)

RECURSIVE GreedyAccept(_, _)
GreedyAccept(segments, non_overlapping) ==
    IF segments = <<>> THEN non_overlapping
    ELSE LET seg == Head(segments)
             overlaps == \E k \in DOMAIN non_overlapping :
                            SegOverlaps(seg, non_overlapping[k])
         IN GreedyAccept(Tail(segments),
                         IF overlaps THEN non_overlapping
                         ELSE Append(non_overlapping, seg))

\* no overlap removal at all
KeepAllSegments(segments) == segments

remove_overlapping_segments(segments) == GreedyAccept(segments, <<>>)

(* ----------- sorted(segments, key=score, reverse=True) ----------------- *)
RECURSIVE InsertByScore(_, _)
\* as InsertByScore, but in ascending order of score
InsertByScoreAscending(s, x) ==
    IF s = <<>> THEN <<x>>
    ELSE IF Head(s).score <= x.score
         THEN <<Head(s)>> \o InsertByScore(Tail(s), x)
         ELSE <<x>> \o s

\* stable: x goes after every element whose score is >= its own
InsertByScore(s, x) ==
    IF s = <<>> THEN <<x>>
    ELSE IF Head(s).score >= x.score
         THEN <<Head(s)>> \o InsertByScore(Tail(s), x)
         ELSE <<x>> \o s

RECURSIVE SortedByScore(_)
\* no sort: the candidates stay in chronological order
ChronologicalOrder(segments) == segments

SortedByScore(segments) ==
    IF segments = <<>> THEN <<>>
    ELSE InsertByScore(SortedByScore(SubSeq(segments, 1, Len(segments) - 1)),
                       segments[Len(segments)])

(* ------------------- _detect_segments_with_motion ---------------------- *)
\* as ReadFrames, but stamping the samples with their frame index when the
\* video reports no frame rate
ReadFramesWithoutRate(v, stride) ==
    LET n == NumMotionSamples(v.frames, stride)
    IN [exc |-> NoExc,
        motion_scores |->
           [j \in 1..n |-> [frame |-> j * stride,
                            time  |-> 2 * (j * stride),
                            score |-> v.flow[j]]]]

\* lines 144-183: the frame loop.  Sample j is taken at frame j*stride; its
\* time frame_idx / fps raises ZeroDivisionError when fps = 0.
ReadFrames(v, stride) ==
    LET n == NumMotionSamples(v.frames, stride)
    IN IF n > 0 /\ v.fps = 0
       THEN [exc |-> "ZeroDivisionError", motion_scores |-> <<>>]
       ELSE [exc |-> NoExc,
             motion_scores |->
                [j \in 1..n |-> [frame |-> j * stride,
                                 time  |-> 2 * (j * stride),
                                 score |-> v.flow[j]]]]

\* lines 192-195
ScoreRange(motion_scores) ==
    LET scores == [j \in DOMAIN motion_scores |-> motion_scores[j].score]
        max_score == SeqMax(scores)
        min_score == SeqMin(scores)
    IN IF max_score > min_score THEN max_score - min_score ELSE 1

\* as Normalize, without subtracting min_score
NormalizeWithoutOffset(motion_scores) ==
    [j \in DOMAIN motion_scores |->
       [frame |-> motion_scores[j].frame,
        time  |-> motion_scores[j].time,
        score |-> motion_scores[j].score,
        normalized_score |-> motion_scores[j].score]]

\* lines 192-198: normalized_score = (score - min_score) / score_range,
\* kept as its numerator over ScoreRange(motion_scores)
Normalize(motion_scores) ==
    LET scores == [j \in DOMAIN motion_scores |-> motion_scores[j].score]
        min_score == SeqMin(scores)
    IN [j \in DOMAIN motion_scores |->
          [frame |-> motion_scores[j].frame,
           time  |-> motion_scores[j].time,
           score |-> motion_scores[j].score,
           normalized_score |-> motion_scores[j].score - min_score]]

(* ------------------- _extract_segments_from_scores --------------------- *)
\* as WindowSize, but rounding to the nearest integer (halves up)
WindowSizeRounded(fps, segment_duration, stride) ==
    (2 * fps * segment_duration + stride) \div (2 * stride)

\* line 244: int(fps * segment_duration / self.frame_sample_rate)
WindowSize(fps, segment_duration, stride) == (fps * segment_duration) \div stride

\* as AboveThreshold, but with avg_score >= mean + 0.5 * std
AtOrAboveThreshold(motion_scores, i, window_size) ==
    LET x  == [j \in DOMAIN motion_scores |-> motion_scores[j].normalized_score]
        xx == [j \in DOMAIN x |-> x[j] * x[j]]
        n  == Len(x)
        S  == SumOf(x, 1, n)
        Q  == SumOf(xx, 1, n)
        Sw == SumOf(x, i + 1, i + window_size)
        D  == n * Sw - window_size * S
        V  == n * Q - S * S
        q  == (2 * D) \div window_size
        r  == (2 * D) % window_size
    IN /\ D >= 0
       /\ IF q * q >= V THEN TRUE
          ELSE IF (q + 1) * (q + 1) <= V THEN FALSE
          ELSE 2 * q * window_size * r + r * r
                  >= (V - q * q) * window_size * window_size

\* lines 233-236 and 249-251: avg_score > mean + 0.5 * std, for the window
\* motion_scores[i : i + window_size] (0-based i).  With n samples of sum S
\* and square sum Q and a window of w samples of sum Sw this is
\*   D > 0 /\ (2*D/w)^2 > V,   D = n*Sw - w*S,   V = n*Q - S^2,
\* decided with 2*D = q*w + r (0 <= r < w) so that no product leaves the
\* 32-bit range on clips of a minute: when q^2 <= V < (q+1)^2 it is
\*   2*q*w*r + r^2 > (V - q^2) * w^2.
AboveThreshold(motion_scores, i, window_size) ==
    LET x  == [j \in DOMAIN motion_scores |-> motion_scores[j].normalized_score]
        xx == [j \in DOMAIN x |-> x[j] * x[j]]
        n  == Len(x)
        S  == SumOf(x, 1, n)
        Q  == SumOf(xx, 1, n)
        Sw == SumOf(x, i + 1, i + window_size)
        D  == n * Sw - window_size * S
        V  == n * Q - S * S
        q  == (2 * D) \div window_size
        r  == (2 * D) % window_size
    IN /\ D > 0
       /\ IF q * q > V THEN TRUE
          ELSE IF (q + 1) * (q + 1) <= V THEN FALSE
          ELSE 2 * q * window_size * r + r * r
                  > (V - q * q) * window_size * window_size

\* as Confidence, but without the cap at 1.0
ConfidenceUncapped(Sw, window_size, score_range) == 3 * Sw

\* line 270: min(1.0, avg_score * 1.5) for a window of sum Sw, as numerator
\* over 2 * window_size * score_range
Confidence(Sw, window_size, score_range) ==
    Min2(2 * window_size * score_range, 3 * Sw)

\* as DurationWithinLimits, without the lower limit
DurationAtMostMax(duration, fps) == duration <= 2 * fps * MAX_CLIP_LENGTH

\* line 264, with the limits in ticks
DurationWithinLimits(duration, fps) ==
    /\ duration >= 2 * fps * MIN_CLIP_LENGTH
    /\ duration <= 2 * fps * MAX_CLIP_LENGTH

\* as ExtendToMinLength, but without clipping the start and the end
ExtendWithoutClipping(start_time0, end_time0, last_time, min_len) ==
    LET extension == (min_len - (end_time0 - start_time0)) \div 2
    IN [start_time |-> start_time0 - extension,
        end_time   |-> end_time0 + extension]

\* lines 258-261: a window shorter than MIN_CLIP_LENGTH (min_len ticks) grows
\* by half the missing length on each side, the start clipped at 0 and the
\* end at the time of the last motion sample
ExtendToMinLength(start_time0, end_time0, last_time, min_len) ==
    LET extension == (min_len - (end_time0 - start_time0)) \div 2
    IN [start_time |-> Max2(0, start_time0 - extension),
        end_time   |-> Min2(last_time, end_time0 + extension)]

\* as WindowSegment, but truncating a window longer than MAX_CLIP_LENGTH to
\* MAX_CLIP_LENGTH instead of rejecting it
WindowSegmentTruncating(motion_scores, fps, i, window_size) ==
    LET x  == [j \in DOMAIN motion_scores |-> motion_scores[j].normalized_score]
        Sw == SumOf(x, i + 1, i + window_size)
        start_time0 == motion_scores[i + 1].time
        end_time0   == motion_scores[i + window_size].time
        duration0   == end_time0 - start_time0
        min_len     == 2 * fps * MIN_CLIP_LENGTH
        max_len     == 2 * fps * MAX_CLIP_LENGTH
        short       == duration0 < min_len
        extended    == ExtendToMinLength(start_time0, end_time0,
                           motion_scores[Len(motion_scores)].time, min_len)
        start_time  == IF short THEN extended.start_time ELSE start_time0
        end_time    == IF short THEN extended.end_time
                       ELSE Min2(end_time0, start_time0 + max_len)
        duration    == end_time - start_time
    IN IF duration >= min_len
       THEN << [start |-> start_time, end |-> end_time, duration |-> duration,
                score |-> 2 * Sw,
                confidence |-> Confidence(Sw, window_size,
                                          ScoreRange(motion_scores))] >>
       ELSE <<>>

\* lines 252-271: the segment of one window above the threshold, <<>> when
\* its duration is out of limits.  score and confidence are numerators over
\* 2 * window_size * score_range.
WindowSegment(motion_scores, fps, i, window_size) ==
    LET x  == [j \in DOMAIN motion_scores |-> motion_scores[j].normalized_score]
        Sw == SumOf(x, i + 1, i + window_size)
        start_time0 == motion_scores[i + 1].time
        end_time0   == motion_scores[i + window_size].time
        duration0   == end_time0 - start_time0
        min_len     == 2 * fps * MIN_CLIP_LENGTH
        short       == duration0 < min_len
        extended    == ExtendToMinLength(start_time0, end_time0,
                           motion_scores[Len(motion_scores)].time, min_len)
        start_time  == IF short THEN extended.start_time ELSE start_time0
        end_time    == IF short THEN extended.end_time ELSE end_time0
        duration    == end_time - start_time
    IN IF DurationWithinLimits(duration, fps)
       THEN << [start |-> start_time, end |-> end_time, duration |-> duration,
                score |-> 2 * Sw,
                confidence |-> Confidence(Sw, window_size,
                                          ScoreRange(motion_scores))] >>
       ELSE <<>>

\* line 247: range(0, len(motion_scores) - window_size, step_size), the
\* 0-based start indices of the windows that are evaluated (step_size > 0)
WindowStarts(len, window_size, step_size) ==
    { i \in 0..(len - window_size - 1) : i % step_size = 0 }

RECURSIVE ScanWindows(_, _, _, _, _)
\* as ScanWindows, but keeping the window at i whatever its average
ScanWindowsKeepingAll(motion_scores, fps, window_size, step_size, i) ==
    IF i \notin WindowStarts(Len(motion_scores), window_size, step_size)
    THEN <<>>
    ELSE WindowSegment(motion_scores, fps, i, window_size)
         \o ScanWindows(motion_scores, fps, window_size, step_size, i + step_size)

\* lines 247-271: the loop over WindowStarts, from start index i on
ScanWindows(motion_scores, fps, window_size, step_size, i) ==
    IF i \notin WindowStarts(Len(motion_scores), window_size, step_size)
    THEN <<>>
    ELSE (IF AboveThreshold(motion_scores, i, window_size)
          THEN WindowSegment(motion_scores, fps, i, window_size)
          ELSE <<>>)
         \o ScanWindows(motion_scores, fps, window_size, step_size, i + step_size)

\* as extract_segments_from_scores, but with windows that do not overlap
\* (step_size = window_size)
ExtractWithoutWindowOverlap(motion_scores, fps, segment_duration, stride) ==
    LET window_size == WindowSize(fps, segment_duration, stride)
    IN IF motion_scores = <<>> THEN [exc |-> NoExc, segments |-> <<>>]
       ELSE IF window_size = 0 THEN [exc |-> "ValueError", segments |-> <<>>]
       ELSE [exc |-> NoExc,
             segments |-> remove_overlapping_segments(SortedByScore(
                 ScanWindows(motion_scores, fps, window_size, window_size, 0)))]

\* lines 229-277.  range() with a zero step raises ValueError.
extract_segments_from_scores(motion_scores, fps, segment_duration, stride) ==
    LET window_size == WindowSize(fps, segment_duration, stride)
        step_size   == window_size \div 2
    IN IF motion_scores = <<>> THEN [exc |-> NoExc, segments |-> <<>>]
       ELSE IF step_size = 0 THEN [exc |-> "ValueError", segments |-> <<>>]
       ELSE [exc |-> NoExc,
             segments |-> remove_overlapping_segments(SortedByScore(
                 ScanWindows(motion_scores, fps, window_size, step_size, 0)))]

\* lines 134-206, the body of the try: the exception it raises (NoExc when it
\* returns), the segments it returns, and whether cap.release() (line 185)
\* was reached.
MotionBody(v, stride, segment_duration) ==
    IF ~v.opens
    THEN [exc |-> "ValueError", segments |-> <<>>, released |-> FALSE]
    ELSE LET rd == ReadFrames(v, stride)
         IN IF rd.exc # NoExc
            THEN [exc |-> rd.exc, segments |-> <<>>, released |-> FALSE]
            ELSE IF rd.motion_scores = <<>>
            THEN [exc |-> NoExc, segments |-> <<>>, released |-> TRUE]
            ELSE LET ex == extract_segments_from_scores(
                               Normalize(rd.motion_scores), v.fps,
                               segment_duration, stride)
                 IN [exc |-> ex.exc, segments |-> ex.segments,
                     released |-> TRUE]

\* a handler that catches ValueError only
CatchesOnlyValueError(exc) == exc = "ValueError"

\* line 208: except Exception
MotionCatches(exc) == TRUE

\* as MotionResult, but letting every exception of the body leave the method
MotionResultRaising(v, stride, segment_duration) ==
    LET b == MotionBody(v, stride, segment_duration)
    IN IF b.exc = NoExc THEN [raised |-> NoExc, segments |-> b.segments]
       ELSE [raised |-> b.exc, segments |-> <<>>]

\* lines 133-210: what _detect_segments_with_motion hands to its caller
MotionResult(v, stride, segment_duration) ==
    LET b == MotionBody(v, stride, segment_duration)
    IN IF b.exc = NoExc THEN [raised |-> NoExc, segments |-> b.segments]
       ELSE IF MotionCatches(b.exc) THEN [raised |-> NoExc, segments |-> <<>>]
       ELSE [raised |-> b.exc, segments |-> <<>>]

(* --------------------- _detect_segments_with_api ----------------------- *)
\* Remote items are Python dicts: functions from the keys present to values.
\* Their times are in seconds, their scores in halves (1 is 0.5, 2 is 1.0).
FullItem(s, e) ==
    [start_time |-> s, end_time |-> e, action_score |-> 2, confidence |-> 2]

RemoteItems ==
    { FullItem(0, 10), FullItem(5, 15), FullItem(10, 20),
      [end_time |-> 10, action_score |-> 2, confidence |-> 2],
      [start_time |-> 0, action_score |-> 2, confidence |-> 2],
      [start_time |-> 0, end_time |-> 10, confidence |-> 2],
      [start_time |-> 0, end_time |-> 10, action_score |-> 2] }

ItemLists == UNION { [1..k -> RemoteItems] : k \in 0..MaxItems }

\* What requests.post does: it raises (timeout, connection error), or it
\* returns a response with a status code and a body.  json is "invalid" (not
\* JSON), "array" (JSON, but not an object) or "object"; has_segments tells
\* whether the object has the key 'segments'.
NoResponse ==
    [outcome |-> "none", status_code |-> 0, json |-> "none",
     has_segments |-> FALSE, segments |-> <<>>]

Responses ==
    { [NoResponse EXCEPT !.outcome = "timeout"] } \cup
    { [NoResponse EXCEPT !.outcome = "response", !.status_code = 500] } \cup
    { [NoResponse EXCEPT !.outcome = "response", !.status_code = 200,
                         !.json = j] : j \in {"invalid", "array", "object"} } \cup
    { [NoResponse EXCEPT !.outcome = "response", !.status_code = 200,
                         !.json = "object", !.has_segments = TRUE,
                         !.segments = l] : l \in ItemLists }

\* as ApiSegment, but stretching every remote segment to MIN_CLIP_LENGTH
ApiSegmentMinLength(seg) ==
    [start |-> seg.start_time,
     end |-> Max2(seg.end_time, seg.start_time + MIN_CLIP_LENGTH),
     duration |-> Max2(seg.end_time, seg.start_time + MIN_CLIP_LENGTH)
                    - seg.start_time,
     score |-> IF "action_score" \in DOMAIN seg THEN seg.action_score ELSE 1,
     confidence |-> IF "confidence" \in DOMAIN seg THEN seg.confidence ELSE 1]

\* lines 105-111: seg.get('action_score', 0.5), seg.get('confidence', 0.5)
ApiSegment(seg) ==
    [start |-> seg.start_time,
     end |-> seg.end_time,
     duration |-> seg.end_time - seg.start_time,
     score |-> IF "action_score" \in DOMAIN seg THEN seg.action_score ELSE 1,
     confidence |-> IF "confidence" \in DOMAIN seg THEN seg.confidence ELSE 1]

HasTimes(seg) == {"start_time", "end_time"} \subseteq DOMAIN seg

\* as ParseBody, but skipping the items without start_time or end_time
ParseBodySkippingBadItems(resp) ==
    IF resp.json = "invalid" THEN [exc |-> "JSONDecodeError", segments |-> <<>>]
    ELSE IF resp.json = "array" THEN [exc |-> "AttributeError", segments |-> <<>>]
    ELSE [exc |-> NoExc,
          segments |-> LET good == SelectSeq(resp.segments, HasTimes)
                       IN [k \in DOMAIN good |-> ApiSegment(good[k])]]

\* lines 102-111: response.json() raises on a body that is not JSON,
\* result.get raises AttributeError on a JSON value that is not an object,
\* result.get('segments', []) is [] without the key, and seg['start_time'],
\* seg['end_time'] raise KeyError on an item without them.
ParseBody(resp) ==
    IF resp.json = "invalid" THEN [exc |-> "JSONDecodeError", segments |-> <<>>]
    ELSE IF resp.json = "array" THEN [exc |-> "AttributeError", segments |-> <<>>]
    ELSE LET items == IF resp.has_segments THEN resp.segments ELSE <<>>
         IN IF \E k \in DOMAIN items : ~HasTimes(items[k])
            THEN [exc |-> "KeyError", segments |-> <<>>]
            ELSE [exc |-> NoExc,
                  segments |-> [k \in DOMAIN items |-> ApiSegment(items[k])]]

\* as ApiBody, but answering a non-200 status with an empty list
ApiBodyEmptyOnBadStatus(readable, resp) ==
    IF ~readable THEN [exc |-> "OSError", branch |-> "except", segments |-> <<>>]
    ELSE IF resp.outcome = "timeout"
    THEN [exc |-> "RequestException", branch |-> "except", segments |-> <<>>]
    ELSE IF resp.status_code = 200
    THEN LET b == ParseBody(resp)
         IN [exc |-> b.exc, segments |-> b.segments,
             branch |-> IF b.exc = NoExc THEN "return" ELSE "except"]
    ELSE [exc |-> NoExc, branch |-> "return", segments |-> <<>>]

\* lines 82-116, the body of the try up to the point where it returns the
\* parsed segments (branch "return"), calls _detect_segments_with_motion in
\* the else branch (line 116, still inside the try: "else"), or raises
\* (the handler of line 118 is entered: "except").
ApiBody(readable, resp) ==
    IF ~readable THEN [exc |-> "OSError", branch |-> "except", segments |-> <<>>]
    ELSE IF resp.outcome = "timeout"
    THEN [exc |-> "RequestException", branch |-> "except", segments |-> <<>>]
    ELSE IF resp.status_code = 200
    THEN LET b == ParseBody(resp)
         IN [exc |-> b.exc, segments |-> b.segments,
             branch |-> IF b.exc = NoExc THEN "return" ELSE "except"]
    ELSE [exc |-> NoExc, branch |-> "else", segments |-> <<>>]

\* a handler that catches transport errors only
CatchesOnlyRequestException(exc) == exc = "RequestException"

\* line 118: except Exception
ApiCatches(exc) == TRUE

(* ------------------- detect_high_action_segments ----------------------- *)
\* as SelectsRemote, but testing the key against None only
SelectsRemoteKeyNotNone(use_api, api_key) == use_api /\ api_key # None

\* line 64: self.use_clipping_api and self.clipping_api_key
SelectsRemote(use_api, api_key) == use_api /\ api_key \notin {None, ""}

(* ------------------------------- state --------------------------------- *)
VARIABLES
    use_clipping_api,    \* self.use_clipping_api
    clipping_api_key,    \* self.clipping_api_key
    frame_sample_rate,   \* self.frame_sample_rate
    motion_threshold,    \* self.motion_threshold, in hundredths
    segment_duration,    \* the argument, then (line 62) its effective value
    pc,                  \* SELECT_STRATEGY, REMOTE, LOCAL, DONE, CALLER
    call_site,           \* where LOCAL was called from: direct, else, except
    response,            \* the response received (its body only if parsed)
    api_exc,             \* the exception raised in the try of the API method
    video,               \* what cv2 found at video_path
    local_exc,           \* the exception raised in the try of the local method
    cap,                 \* the cv2.VideoCapture handle
    result,              \* the list handed to the caller
    propagated,          \* the exception handed to the caller
    remote_requests,     \* requests.post calls of this invocation
    local_runs,          \* _detect_segments_with_motion calls of this invocation
    calls,               \* invocations made on this VideoProcessor so far
    prev_result,         \* the list the previous invocation handed back
    caller,              \* who invoked the engine: none, pipeline, campaign
    video_duration,      \* download_result['duration'], in seconds
    segments             \* the caller's list once it has looked at the result

vars == <<use_clipping_api, clipping_api_key, frame_sample_rate,
          motion_threshold, segment_duration, pc, call_site, response,
          api_exc, video, local_exc, cap, result, propagated, remote_requests,
          local_runs, calls, prev_result, caller, video_duration, segments>>

caller_vars == <<caller, video_duration, segments>>

config ==
    <<use_clipping_api, clipping_api_key, frame_sample_rate, motion_threshold>>

\* VideoProcessor.__init__ (lines 38-44) and the caller's arguments
Init ==
    /\ use_clipping_api \in BOOLEAN
    /\ clipping_api_key \in ApiKeys
    /\ frame_sample_rate \in StrideValues
    /\ motion_threshold = MOTION_THRESHOLD
    /\ segment_duration \in DurationArgs
    /\ pc = "SELECT_STRATEGY"
    /\ call_site = "none"
    /\ response = NoResponse
    /\ api_exc = NoExc
    /\ video = NoVideo
    /\ local_exc = NoExc
    /\ cap = "unset"
    /\ result = <<>>
    /\ propagated = NoExc
    /\ remote_requests = 0
    /\ local_runs = 0
    /\ calls = 1
    /\ prev_result = <<>>
    /\ caller = "none"
    /\ video_duration = 0
    /\ segments = <<>>

\* lines 61-69
detect_high_action_segments ==
    /\ pc = "SELECT_STRATEGY"
    /\ segment_duration' = IF segment_duration = <<>>
                           THEN <<TARGET_CLIP_LENGTH>> ELSE segment_duration
    /\ IF SelectsRemote(use_clipping_api, clipping_api_key)
       THEN pc' = "REMOTE" /\ call_site' = call_site
       ELSE pc' = "LOCAL" /\ call_site' = "direct"
    /\ UNCHANGED <<config, response, api_exc, video, local_exc, cap, result,
                   propagated, remote_requests, local_runs, calls, prev_result,
                   caller_vars>>

\* what is left of a response whose body was not read or not parsed
StatusOnly(readable, resp) ==
    IF ~readable THEN NoResponse
    ELSE [NoResponse EXCEPT !.outcome = resp.outcome,
                            !.status_code = resp.status_code]

\* as detect_segments_with_api, but passing the segments of a 200 body
\* through the sort and the overlap removal of the local pipeline
detect_segments_with_api_resolving ==
    /\ pc = "REMOTE"
    /\ \E readable \in BOOLEAN, resp \in Responses :
         LET b == ApiBody(readable, resp)
         IN /\ remote_requests' = remote_requests + (IF readable THEN 1 ELSE 0)
            /\ api_exc' = b.exc
            /\ response' = IF b.exc = NoExc /\ resp.status_code = 200
                           THEN resp ELSE StatusOnly(readable, resp)
            /\ CASE b.branch = "return" ->
                      /\ pc' = "DONE"
                      /\ result' = remove_overlapping_segments(
                                       SortedByScore(b.segments))
                      /\ UNCHANGED <<call_site, propagated>>
                 [] b.branch = "else" ->
                      /\ pc' = "LOCAL"
                      /\ call_site' = "else"
                      /\ UNCHANGED <<result, propagated>>
                 [] b.branch = "except" ->
                      IF ApiCatches(b.exc)
                      THEN /\ pc' = "LOCAL"
                           /\ call_site' = "except"
                           /\ UNCHANGED <<result, propagated>>
                      ELSE /\ pc' = "DONE"
                           /\ propagated' = b.exc
                           /\ UNCHANGED <<call_site, result>>
    /\ UNCHANGED <<config, segment_duration, video, local_exc, cap, local_runs,
                   calls, prev_result, caller_vars>>

\* lines 82-120, up to the call of the local method
detect_segments_with_api ==
    /\ pc = "REMOTE"
    /\ \E readable \in BOOLEAN, resp \in Responses :
         LET b == ApiBody(readable, resp)
         IN /\ remote_requests' = remote_requests + (IF readable THEN 1 ELSE 0)
            /\ api_exc' = b.exc
            /\ response' = IF b.exc = NoExc /\ resp.status_code = 200
                           THEN resp ELSE StatusOnly(readable, resp)
            /\ CASE b.branch = "return" ->
                      /\ pc' = "DONE"
                      /\ result' = b.segments
                      /\ UNCHANGED <<call_site, propagated>>
                 [] b.branch = "else" ->
                      /\ pc' = "LOCAL"
                      /\ call_site' = "else"
                      /\ UNCHANGED <<result, propagated>>
                 [] b.branch = "except" ->
                      IF ApiCatches(b.exc)
                      THEN /\ pc' = "LOCAL"
                           /\ call_site' = "except"
                           /\ UNCHANGED <<result, propagated>>
                      ELSE /\ pc' = "DONE"
                           /\ propagated' = b.exc
                           /\ UNCHANGED <<call_site, result>>
    /\ UNCHANGED <<config, segment_duration, video, local_exc, cap, local_runs,
                   calls, prev_result, caller_vars>>

\* as LocalRunsAgain, but whatever the outcome of the LOCAL pass
LocalRunsAgainAfterElse(site, raised) == site = "else"

\* lines 116-120: the LOCAL call of the else branch is inside the try of
\* line 82, so an exception that leaves it is caught by the handler of
\* line 118, which calls the LOCAL method again
LocalRunsAgain(site, raised) ==
    site = "else" /\ raised # NoExc /\ ApiCatches(raised)

\* as MotionStep, but returning only the segments whose score is above
\* self.motion_threshold
MotionStepFiltering ==
    /\ LET b == MotionBody(video', frame_sample_rate, segment_duration[1])
           r == MotionResult(video', frame_sample_rate, segment_duration[1])
           unit == 2 * WindowSize(video'.fps, segment_duration[1],
                                  frame_sample_rate)
                     * ScoreRange(ReadFrames(video', frame_sample_rate)
                                     .motion_scores)
           Sensitive(seg) == 100 * seg.score > motion_threshold * unit
       IN /\ local_runs' = local_runs + 1
          /\ local_exc' = b.exc
          /\ cap' = IF ~video'.opens THEN "unopened"
                    ELSE IF b.released THEN "released" ELSE "open"
          /\ IF LocalRunsAgain(call_site, r.raised)
             THEN /\ pc' = "LOCAL"
                  /\ call_site' = "except"
                  /\ UNCHANGED <<result, propagated>>
             ELSE IF r.raised = NoExc
             THEN /\ pc' = "DONE"
                  /\ result' = SelectSeq(r.segments, Sensitive)
                  /\ UNCHANGED <<call_site, propagated>>
             ELSE /\ pc' = "DONE"
                  /\ propagated' = r.raised
                  /\ UNCHANGED <<call_site, result>>
    /\ UNCHANGED <<config, segment_duration, response, api_exc, remote_requests,
                   calls, prev_result, caller_vars>>

\* lines 133-210, on the video found at video_path (video').  An exception
\* that leaves the method when it was called from the else branch (line 116)
\* is raised inside the try of the API method, whose handler (line 120) calls
\* the method again.
MotionStep ==
    /\ LET b == MotionBody(video', frame_sample_rate, segment_duration[1])
           r == MotionResult(video', frame_sample_rate, segment_duration[1])
       IN /\ local_runs' = local_runs + 1
          /\ local_exc' = b.exc
          /\ cap' = IF ~video'.opens THEN "unopened"
                    ELSE IF b.released THEN "released" ELSE "open"
          /\ IF LocalRunsAgain(call_site, r.raised)
             THEN /\ pc' = "LOCAL"
                  /\ call_site' = "except"
                  /\ UNCHANGED <<result, propagated>>
             ELSE IF r.raised = NoExc
             THEN /\ pc' = "DONE"
                  /\ result' = r.segments
                  /\ UNCHANGED <<call_site, propagated>>
             ELSE /\ pc' = "DONE"
                  /\ propagated' = r.raised
                  /\ UNCHANGED <<call_site, result>>
    /\ UNCHANGED <<config, segment_duration, response, api_exc, remote_requests,
                   calls, prev_result, caller_vars>>

\* as detect_segments_with_motion, but collecting the segments in a list that
\* outlives the run
detect_segments_with_motion_appending ==
    /\ pc = "LOCAL"
    /\ video' \in (IF local_runs = 0 /\ calls = 1
                   THEN VideoFiles(frame_sample_rate) ELSE {video})
    /\ LET r == MotionResult(video', frame_sample_rate, segment_duration[1])
       IN /\ local_runs' = local_runs + 1
          /\ local_exc' = NoExc
          /\ cap' = "released"
          /\ pc' = "DONE"
          /\ result' = result \o r.segments
    /\ UNCHANGED <<config, segment_duration, call_site, propagated, response,
                   api_exc, remote_requests, calls, prev_result, caller_vars>>

\* _detect_segments_with_motion on whatever video is at video_path; a later
\* invocation finds the same, unmodified video
detect_segments_with_motion ==
    /\ pc = "LOCAL"
    /\ video' \in (IF local_runs = 0 /\ calls = 1
                   THEN VideoFiles(frame_sample_rate) ELSE {video})
    /\ MotionStep

Next ==
    \/ detect_high_action_segments
    \/ detect_segments_with_api
    \/ detect_segments_with_motion

Spec == Init /\ [][Next]_vars

\* The engine is single-threaded and synchronous, and the remote request is
\* bounded by its timeout: a step that can be taken is taken.
FairSpec ==
    /\ Spec
    /\ WF_vars(detect_high_action_segments)
    /\ WF_vars(detect_segments_with_api)
    /\ WF_vars(detect_segments_with_motion)

(* --------------------- a second invocation ----------------------------- *)
\* The caller (ContentPipeline.process_multiple_urls, CampaignProcessor)
\* keeps one VideoProcessor and invokes detect_high_action_segments on it
\* again, here on the same video with the same segment_duration argument.
\* The fields of the VideoProcessor stay as the previous invocation left
\* them; the locals of the new invocation are fresh.
invoke_again ==
    /\ pc = "DONE"
    /\ calls < MaxCalls
    /\ calls' = calls + 1
    /\ prev_result' = result
    /\ pc' = "SELECT_STRATEGY"
    /\ segment_duration' \in
          { a \in DurationArgs :
               (IF a = <<>> THEN <<TARGET_CLIP_LENGTH>> ELSE a) = segment_duration }
    /\ call_site' = "none"
    /\ response' = NoResponse
    /\ api_exc' = NoExc
    /\ local_exc' = NoExc
    /\ cap' = "unset"
    /\ propagated' = NoExc
    /\ remote_requests' = 0
    /\ local_runs' = 0
    /\ UNCHANGED <<config, video, result, caller_vars>>

\* a VideoProcessor configured for LOCAL detection
RerunInit == Init /\ ~SelectsRemote(use_clipping_api, clipping_api_key)

RerunNext ==
    \/ detect_high_action_segments
    \/ detect_segments_with_motion
    \/ invoke_again

RerunSpec == RerunInit /\ [][RerunNext]_vars

(* ------------- a second run with another MOTION_THRESHOLD --------------- *)
\* The same video is analysed again by a VideoProcessor that differs from the
\* first one in self.motion_threshold only (line 40: MOTION_THRESHOLD of
\* config.py, changed between the runs).
run_with_motion_threshold ==
    /\ pc = "DONE"
    /\ calls < MaxCalls
    /\ calls' = calls + 1
    /\ motion_threshold' \in ThresholdValues \ {motion_threshold}
    /\ prev_result' = result
    /\ pc' = "SELECT_STRATEGY"
    /\ call_site' = "none"
    /\ response' = NoResponse
    /\ api_exc' = NoExc
    /\ local_exc' = NoExc
    /\ cap' = "unset"
    /\ propagated' = NoExc
    /\ remote_requests' = 0
    /\ local_runs' = 0
    /\ UNCHANGED <<use_clipping_api, clipping_api_key, frame_sample_rate,
                   segment_duration, video, result, caller_vars>>

ThresholdNext ==
    \/ detect_high_action_segments
    \/ detect_segments_with_motion
    \/ run_with_motion_threshold

ThresholdSpec == RerunInit /\ [][ThresholdNext]_vars

(* ------------------------- synthetic clips ----------------------------- *)
\* a VideoProcessor as config.py configures it (FRAME_SAMPLE_RATE, remote
\* mode off or without key), given one of the synthetic clips
ScenarioInit ==
    /\ use_clipping_api \in BOOLEAN
    /\ clipping_api_key \in ApiKeys
    /\ ~SelectsRemote(use_clipping_api, clipping_api_key)
    /\ frame_sample_rate = FRAME_SAMPLE_RATE
    /\ motion_threshold = MOTION_THRESHOLD
    /\ segment_duration \in DurationArgs
    /\ pc = "SELECT_STRATEGY"
    /\ call_site = "none"
    /\ response = NoResponse
    /\ api_exc = NoExc
    /\ video = NoVideo
    /\ local_exc = NoExc
    /\ cap = "unset"
    /\ result = <<>>
    /\ propagated = NoExc
    /\ remote_requests = 0
    /\ local_runs = 0
    /\ calls = 1
    /\ prev_result = <<>>
    /\ caller = "none"
    /\ video_duration = 0
    /\ segments = <<>>

\* _detect_segments_with_motion on one of the synthetic clips
detect_segments_of_scenario ==
    /\ pc = "LOCAL"
    /\ video' \in (IF local_runs = 0 /\ calls = 1
                   THEN ScenarioVideos(segment_duration[1]) ELSE {video})
    /\ MotionStep

ScenarioNext ==
    \/ detect_high_action_segments
    \/ detect_segments_of_scenario

ScenarioSpec == ScenarioInit /\ [][ScenarioNext]_vars

(* ----------------------------- the callers ---------------------------- *)
\* download_result.get('duration', 0): the length the downloader reports for
\* the video, in seconds (0 when it reports none)
VideoDurations == {0, 20, 30, 60}

\* pipeline.py 90-93 and campaign_processor.py 108-111: both callers pass a
\* segment_duration, TARGET_CLIP_LENGTH resp. the literal 30
CallerInit ==
    /\ use_clipping_api \in BOOLEAN
    /\ clipping_api_key \in ApiKeys
    /\ frame_sample_rate = FRAME_SAMPLE_RATE
    /\ motion_threshold = MOTION_THRESHOLD
    /\ caller \in {"pipeline", "campaign"}
    /\ segment_duration = IF caller = "pipeline" THEN <<TARGET_CLIP_LENGTH>>
                          ELSE <<30>>
    /\ pc = "SELECT_STRATEGY"
    /\ call_site = "none"
    /\ response = NoResponse
    /\ api_exc = NoExc
    /\ video = NoVideo
    /\ local_exc = NoExc
    /\ cap = "unset"
    /\ result = <<>>
    /\ propagated = NoExc
    /\ remote_requests = 0
    /\ local_runs = 0
    /\ calls = 1
    /\ prev_result = <<>>
    /\ video_duration = 0
    /\ segments = <<>>

\* pipeline.py 80 and 95-104: ContentPipeline.process_video after the engine
\* returned.  The fallback segment is in seconds, its score and confidence in
\* halves (1 is 0.5).
process_video ==
    /\ pc = "DONE"
    /\ caller = "pipeline"
    /\ propagated = NoExc
    /\ video_duration' \in VideoDurations
    /\ segments' =
          IF result = <<>>
          THEN << [start |-> 0,
                   end |-> Min2(TARGET_CLIP_LENGTH, video_duration'),
                   duration |-> Min2(TARGET_CLIP_LENGTH, video_duration'),
                   score |-> 1, confidence |-> 1] >>
          ELSE result
    /\ pc' = "CALLER"
    /\ UNCHANGED <<config, segment_duration, call_site, response, api_exc,
                   video, local_exc, cap, result, propagated, remote_requests,
                   local_runs, calls, prev_result, caller>>

\* campaign_processor.py 119-127: CampaignProcessor._process_with_campaign_rules
\* after the engine returned; it does not read the length of the video.
process_with_campaign_rules ==
    /\ pc = "DONE"
    /\ caller = "campaign"
    /\ propagated = NoExc
    /\ video_duration' \in VideoDurations
    /\ segments' =
          IF result = <<>>
          THEN << [start |-> 0, end |-> 30, duration |-> 30,
                   score |-> 1, confidence |-> 1] >>
          ELSE result
    /\ pc' = "CALLER"
    /\ UNCHANGED <<config, segment_duration, call_site, response, api_exc,
                   video, local_exc, cap, result, propagated, remote_requests,
                   local_runs, calls, prev_result, caller>>

CallerNext ==
    \/ detect_high_action_segments
    \/ detect_segments_with_api
    \/ detect_segments_of_scenario
    \/ process_video
    \/ process_with_campaign_rules

CallerSpec == CallerInit /\ [][CallerNext]_vars

(* ------------------------------ properties ----------------------------- *)
\* the overlap test of the data model: A.end > B.start and A.start < B.end
Overlap(A, B) == A.end > B.start /\ A.start < B.end

NoTwoOverlap(segs) ==
    \A i, j \in DOMAIN segs : i # j => ~Overlap(segs[i], segs[j])

\* the invocation ended in the LOCAL pipeline / with the segments of a 200 body
LocalReturned == pc = "DONE" /\ local_runs > 0
RemoteReturned ==
    pc = "DONE" /\ response.status_code = 200 /\ api_exc = NoExc

\* the candidates the window scan of the local run produced, before the sort
\* and the overlap removal
LocalCandidates ==
    LET rd == ReadFrames(video, frame_sample_rate)
        w  == WindowSize(video.fps, segment_duration[1], frame_sample_rate)
    IN IF video.opens /\ rd.exc = NoExc /\ rd.motion_scores # <<>> /\ w >= 2
       THEN ScanWindows(Normalize(rd.motion_scores), video.fps, w, w \div 2, 0)
       ELSE <<>>

\* C1: no two distinct segments returned by the LOCAL path overlap
\* (A.end > B.start and A.start < B.end), whatever the scores, the frame
\* rate, the target duration and the stride.
C1_LocalNoOverlap == LocalReturned => NoTwoOverlap(result)

\* a local run that kept two segments and rejected an overlapping candidate
C1_Witness ==
    /\ LocalReturned
    /\ Len(result) >= 2
    /\ Len(LocalCandidates) > Len(result)

\* C2 as stated: the segments returned from an HTTP 200 response never
\* overlap, whatever items the remote service sent.
C2_RemoteNoOverlap == RemoteReturned => NoTwoOverlap(result)

\* the items of the returned response, as intervals
ItemOverlap(a, b) == a.end_time > b.start_time /\ a.start_time < b.end_time

\* C2 amended: the segments returned from an HTTP 200 response overlap
\* exactly where the items of the response do; in particular they are
\* pairwise non-overlapping whenever the items are.
C2_RemoteOverlapOnlyFromItems ==
    RemoteReturned =>
        /\ Len(result) = Len(response.segments)
        /\ \A i, j \in DOMAIN result :
              Overlap(result[i], result[j])
                 <=> ItemOverlap(response.segments[i], response.segments[j])

\* a 200 response with two items that only touch, returned as two segments
C2_Witness ==
    /\ RemoteReturned
    /\ Len(result) = 2
    /\ result[1].end = result[2].start
    /\ NoTwoOverlap(result)

\* C3: every segment returned by the LOCAL path has
\* MIN_CLIP_LENGTH <= duration <= MAX_CLIP_LENGTH with duration = end - start.
C3_LocalDurationWithinLimits ==
    LocalReturned =>
        \A k \in DOMAIN result :
            /\ result[k].duration = result[k].end - result[k].start
            /\ result[k].duration >= 2 * video.fps * MIN_CLIP_LENGTH
            /\ result[k].duration <= 2 * video.fps * MAX_CLIP_LENGTH

\* a local run that returned a segment of a window shorter than
\* MIN_CLIP_LENGTH, extended to it
C3_Witness ==
    /\ LocalReturned
    /\ result # <<>>
    /\ (WindowSize(video.fps, segment_duration[1], frame_sample_rate) - 1)
          * frame_sample_rate < video.fps * MIN_CLIP_LENGTH
    /\ \E k \in DOMAIN result :
          result[k].duration = 2 * video.fps * MIN_CLIP_LENGTH

\* C4: detect_high_action_segments never hands an exception to its caller;
\* it returns a (possibly empty) list for every remote and local outcome.
C4_NeverPropagates ==
    /\ propagated = NoExc
    /\ pc = "DONE" => (api_exc # NoExc \/ local_exc # NoExc => local_runs = 1)
    /\ pc = "DONE" /\ local_exc # NoExc => result = <<>>

\* the remote request raised, and so did the local pipeline
C4_Witness ==
    /\ pc = "DONE"
    /\ api_exc # NoExc
    /\ local_exc # NoExc
    /\ result = <<>>

\* the remote request failed: a status other than 200, or a transport error
RemoteRequestFailed ==
    \/ response.outcome = "timeout"
    \/ response.outcome = "response" /\ response.status_code # 200

\* C5: after a failed remote request the result is the result of the LOCAL
\* pipeline on the same video with the same target duration, run once, and
\* nothing of the response is in it.
C5_FallbackLaw ==
    pc = "DONE" /\ RemoteRequestFailed =>
        /\ local_runs = 1
        /\ propagated = NoExc
        /\ result = MotionResult(video, frame_sample_rate,
                                 segment_duration[1]).segments

\* a failed remote request whose fallback found a segment
C5_Witness ==
    /\ pc = "DONE"
    /\ RemoteRequestFailed
    /\ result # <<>>

\* the returned response has a body that is not the documented one: it has
\* no 'segments', or an item lacks one of the four fields
BodyMalformed ==
    /\ RemoteReturned
    /\ \/ ~response.has_segments
       \/ \E k \in DOMAIN response.segments :
             DOMAIN response.segments[k] #
                {"start_time", "end_time", "action_score", "confidence"}

\* C6 as stated: a 200 response with a malformed body makes the engine run
\* the LOCAL pipeline and return its result.
C6_MalformedBodyFallsBack ==
    pc = "DONE" /\ (BodyMalformed \/ api_exc \in {"JSONDecodeError",
                                                  "AttributeError", "KeyError"})
        => local_runs = 1

\* C6 amended: a 200 body that is not JSON, is not an object, or has an item
\* without start_time or end_time is handled like a failed request (LOCAL is
\* run once and its result returned, so no segments of such a body are ever
\* returned); a body without 'segments' yields the empty list and an item
\* without action_score or confidence gets 0.5 for it, both without LOCAL.
C6_ParseFailureFallsBack ==
    /\ pc = "DONE" /\ api_exc \in {"JSONDecodeError", "AttributeError", "KeyError"}
          => /\ local_runs = 1
             /\ result = MotionResult(video, frame_sample_rate,
                                      segment_duration[1]).segments
    /\ RemoteReturned
          => /\ local_runs = 0
             /\ response.status_code = 200
             /\ response.json = "object"
             /\ ~response.has_segments => result = <<>>
             /\ Len(result) = Len(response.segments)
             /\ \A k \in DOMAIN response.segments :
                   LET seg == response.segments[k]
                   IN /\ {"start_time", "end_time"} \subseteq DOMAIN seg
                      /\ result[k].score =
                            (IF "action_score" \in DOMAIN seg
                             THEN seg.action_score ELSE 1)
                      /\ result[k].confidence =
                            (IF "confidence" \in DOMAIN seg
                             THEN seg.confidence ELSE 1)

\* a 200 body with an unparsable item, answered by a local run with a segment
C6_Witness ==
    /\ pc = "DONE"
    /\ api_exc = "KeyError"
    /\ local_runs = 1
    /\ result # <<>>

\* C7: once _detect_segments_with_motion has returned, no handle it opened
\* is left unreleased (a handle that never opened holds nothing).
C7_HandleReleased == LocalReturned => cap \in {"released", "unopened"}

\* C8: a configuration whose window length round(fps*T/s) is not positive
\* (2*fps*T <= s, with fps > 0 and at least one motion sample, so that the
\* window length is computed) ends in a propagated error, not in a list.
C8_ConfigErrorPropagates ==
    LocalReturned /\ video.opens /\ video.fps > 0
       /\ NumMotionSamples(video.frames, frame_sample_rate) > 0
       /\ 2 * video.fps * segment_duration[1] <= frame_sample_rate
    => propagated # NoExc

\* C9: REMOTE is chosen iff remote mode is enabled and the API key is
\* non-empty; otherwise LOCAL is chosen and no remote request is made.
C9_SelectStrategy ==
    pc # "SELECT_STRATEGY" =>
        LET remote == use_clipping_api /\ clipping_api_key \notin {None, ""}
        IN /\ call_site = "direct" <=> ~remote
           /\ ~remote => /\ pc # "REMOTE"
                         /\ remote_requests = 0
                         /\ response = NoResponse
                         /\ api_exc = NoExc

\* remote mode enabled with an empty key: LOCAL ran, no request was made
C9_Witness ==
    /\ pc = "DONE"
    /\ use_clipping_api
    /\ clipping_api_key = ""
    /\ local_runs = 1
    /\ remote_requests = 0

AllowedSteps ==
    { <<"SELECT_STRATEGY", "REMOTE">>, <<"SELECT_STRATEGY", "LOCAL">>,
      <<"REMOTE", "LOCAL">>, <<"REMOTE", "DONE">>, <<"LOCAL", "DONE">> }

\* C10: every invocation reaches DONE through the steps SELECT_STRATEGY ->
\* REMOTE | LOCAL, REMOTE -> LOCAL | DONE, LOCAL -> DONE only, with at most
\* one remote request and at most one run of LOCAL.
C10_StateMachine ==
    /\ [][pc' # pc => (<<pc, pc'>> \in AllowedSteps)]_vars
    /\ [](remote_requests <= 1 /\ local_runs <= 1)
    /\ <>(pc = "DONE")

\* an invocation that went SELECT_STRATEGY -> REMOTE -> LOCAL -> DONE
C10_Witness ==
    /\ pc = "DONE"
    /\ call_site = "else"
    /\ remote_requests = 1
    /\ local_runs = 1

\* the raw motion scores of the local run, and their normalization (empty
\* when the run did not get as far as line 191)
RawScores ==
    LET rd == ReadFrames(video, frame_sample_rate)
    IN IF video.opens /\ rd.exc = NoExc THEN rd.motion_scores ELSE <<>>

NormalizedScores == IF RawScores = <<>> THEN <<>> ELSE Normalize(RawScores)

\* C11: for every non-empty sequence of raw motion scores every normalized
\* score lies in [0,1] (its numerator in 0..score_range), a sample with the
\* minimum raw score maps to 0 and one with the maximum to 1; when all raw
\* scores are equal every normalized score is 0.
C11_NormalizedInUnitInterval ==
    LocalReturned /\ RawScores # <<>> =>
        LET raw == [j \in DOMAIN RawScores |-> RawScores[j].score]
            R   == ScoreRange(RawScores)
            ns  == NormalizedScores
        IN /\ DOMAIN ns = DOMAIN raw
           /\ \A j \in DOMAIN ns :
                 /\ ns[j].normalized_score >= 0
                 /\ ns[j].normalized_score <= R
                 /\ raw[j] = SeqMin(raw) => ns[j].normalized_score = 0
                 /\ raw[j] = SeqMax(raw) /\ SeqMax(raw) > SeqMin(raw)
                       => ns[j].normalized_score = R
                 /\ SeqMax(raw) = SeqMin(raw) => ns[j].normalized_score = 0

\* a local run whose raw scores are all equal and not 0
C11_Witness ==
    /\ LocalReturned
    /\ Len(RawScores) >= 2
    /\ \A j \in DOMAIN RawScores : RawScores[j].score = MaxRaw
    /\ \A j \in DOMAIN NormalizedScores :
          NormalizedScores[j].normalized_score = 0

InResult(seg) == \E k \in DOMAIN result : result[k] = seg

\* candidate p precedes candidate q in the stable descending-score order
Precedes(p, q) ==
    \/ LocalCandidates[p].score > LocalCandidates[q].score
    \/ LocalCandidates[p].score = LocalCandidates[q].score /\ p < q

\* C13 as stated: the LOCAL result is in descending-score order, and of any
\* two overlapping candidates with equal scores exactly one is kept, the one
\* that came first in candidate order.
C13_TieKeepsFirst ==
    LocalReturned =>
        /\ \A a, b \in DOMAIN result :
              a < b => result[a].score >= result[b].score
        /\ \A p, q \in DOMAIN LocalCandidates :
              p < q /\ LocalCandidates[p].score = LocalCandidates[q].score
                    /\ Overlap(LocalCandidates[p], LocalCandidates[q])
              => InResult(LocalCandidates[p]) /\ ~InResult(LocalCandidates[q])

\* C13 amended: the LOCAL result lists kept candidates in descending-score
\* order, equal scores in candidate order; a candidate is rejected only if
\* it overlaps a kept candidate that precedes it in that order; so of two
\* overlapping candidates with equal scores at most one is kept, and the
\* first of them is kept unless it overlaps a kept candidate that precedes it.
C13_StableOrderAndTies ==
    LocalReturned =>
        /\ \A a \in DOMAIN result :
              \E p \in DOMAIN LocalCandidates : LocalCandidates[p] = result[a]
        /\ \A a, b \in DOMAIN result :
              a < b => \E p, q \in DOMAIN LocalCandidates :
                          /\ LocalCandidates[p] = result[a]
                          /\ LocalCandidates[q] = result[b]
                          /\ Precedes(p, q)
        /\ \A p \in DOMAIN LocalCandidates :
              ~InResult(LocalCandidates[p]) =>
                 \E r \in DOMAIN LocalCandidates :
                    /\ Precedes(r, p)
                    /\ InResult(LocalCandidates[r])
                    /\ Overlap(LocalCandidates[r], LocalCandidates[p])
        /\ \A p, q \in DOMAIN LocalCandidates :
              p < q /\ LocalCandidates[p].score = LocalCandidates[q].score
                    /\ Overlap(LocalCandidates[p], LocalCandidates[q])
              => /\ ~(InResult(LocalCandidates[p]) /\ InResult(LocalCandidates[q]))
                 /\ ~InResult(LocalCandidates[p]) =>
                       \E r \in DOMAIN LocalCandidates :
                          /\ Precedes(r, p)
                          /\ InResult(LocalCandidates[r])
                          /\ Overlap(LocalCandidates[r], LocalCandidates[p])

\* three candidates with equal scores, each overlapping the next: the first
\* is kept and the overlapping second and third are both rejected
C13_Witness ==
    /\ LocalReturned
    /\ Len(LocalCandidates) = 3
    /\ LocalCandidates[1].score = LocalCandidates[3].score
    /\ LocalCandidates[2].score = LocalCandidates[3].score
    /\ Overlap(LocalCandidates[2], LocalCandidates[3])
    /\ result = <<LocalCandidates[1]>>

\* Scenario B was run: 30 fps, 1800 frames, motion in frames 300-600 only,
\* stride 2, target 15 s (MIN_CLIP_LENGTH 15, MAX_CLIP_LENGTH 60)
ScenarioBReturned ==
    /\ LocalReturned
    /\ frame_sample_rate = 2
    /\ segment_duration = <<15>>
    /\ video = BurstVideo(30, 1800, 300, 600)

\* the denominator of score and confidence: 2 * window_size * score_range
ScoreUnit ==
    2 * WindowSize(video.fps, segment_duration[1], frame_sample_rate)
      * ScoreRange(RawScores)

\* C14 as stated: Scenario B returns exactly one segment, which covers
\* [10 s, 20 s], has the minimum duration of 15 s, a score near 1.0 (at
\* least 0.9) and a confidence of at least 0.9.  Times are in ticks of
\* 1/60 s.
C14_ScenarioBScoreNearOne ==
    ScenarioBReturned =>
        /\ Len(result) = 1
        /\ result[1].start <= 60 * 10
        /\ result[1].end >= 60 * 20
        /\ result[1].duration = 60 * MIN_CLIP_LENGTH
        /\ 10 * result[1].score >= 9 * ScoreUnit
        /\ 10 * result[1].confidence >= 9 * ScoreUnit

\* C14 amended: Scenario B returns exactly one segment, [7.5 s, 22.5 s]: the
\* window of 225 samples (14.93 s) that holds the whole burst, extended to
\* 15 s.  Its score is the window average 151/225 (about 0.67, the burst
\* fills two thirds of the window) and its confidence is 1.0.
C14_ScenarioB ==
    ScenarioBReturned =>
        /\ Len(result) = 1
        /\ result[1].start = 15 * 30
        /\ result[1].end = 45 * 30
        /\ result[1].duration = 60 * MIN_CLIP_LENGTH
        /\ 225 * result[1].score = 151 * ScoreUnit
        /\ result[1].confidence = ScoreUnit

\* Scenario B was run and returned a segment that contains the burst
C14_Witness ==
    /\ ScenarioBReturned
    /\ result # <<>>
    /\ result[1].start <= 60 * 10
    /\ result[1].end >= 60 * 20

\* all raw motion scores of the local run are equal
ConstantSignal ==
    /\ RawScores # <<>>
    /\ \A j \in DOMAIN RawScores : RawScores[j].score = RawScores[1].score

\* C15 (Scenario A): for a video whose raw motion scores are all equal LOCAL
\* detection returns the empty sequence, and no window of window_size
\* samples has an average that strictly exceeds the threshold.
C15_ConstantSignalNoSegments ==
    LocalReturned /\ ConstantSignal =>
        /\ result = <<>>
        /\ propagated = NoExc
        /\ LET w == WindowSize(video.fps, segment_duration[1], frame_sample_rate)
           IN w >= 1 =>
                \A i \in 0..(Len(RawScores) - w) :
                    ~AboveThreshold(NormalizedScores, i, w)

\* a constant signal of non-zero magnitude whose windows were scanned
C15_Witness ==
    /\ LocalReturned
    /\ ConstantSignal
    /\ RawScores[1].score > 0
    /\ WindowSize(video.fps, segment_duration[1], frame_sample_rate) >= 2
    /\ Len(RawScores)
          > 2 * WindowSize(video.fps, segment_duration[1], frame_sample_rate)
    /\ result = <<>>

\* C16: whenever the engine returned an empty sequence, the caller holds
\* exactly one fallback segment with start 0, end = duration =
\* min(target_duration, video_duration) and score 0.5, in
\* ContentPipeline.process_video and in
\* CampaignProcessor._process_with_campaign_rules alike.
C16_CallerFallback ==
    pc = "CALLER" /\ result = <<>> =>
        /\ Len(segments) = 1
        /\ segments[1].start = 0
        /\ segments[1].end = Min2(segment_duration[1], video_duration)
        /\ segments[1].duration = Min2(segment_duration[1], video_duration)
        /\ segments[1].score = 1

\* the window length and the step of the local run
LocalWindowSize ==
    WindowSize(video.fps, segment_duration[1], frame_sample_rate)

LocalStepSize == LocalWindowSize \div 2

\* the local run got as far as the window scan (line 247) without error
WindowsScanned ==
    LocalReturned /\ RawScores # <<>> /\ LocalStepSize >= 1

\* C17: the window scan evaluates every start index i = 0, step, 2*step, ...
\* with i + window_length <= len(samples), the window that ends at the last
\* sample included: every such window whose average is above the threshold
\* and whose duration is within the limits is among the candidates.
C17_LastWindowEvaluated ==
    WindowsScanned =>
        \A i \in 0..Len(RawScores) :
            i % LocalStepSize = 0 /\ i + LocalWindowSize <= Len(RawScores)
            => /\ i \in WindowStarts(Len(RawScores), LocalWindowSize,
                                     LocalStepSize)
               /\ AboveThreshold(NormalizedScores, i, LocalWindowSize)
                    => \A k \in DOMAIN WindowSegment(NormalizedScores,
                                         video.fps, i, LocalWindowSize) :
                          \E c \in DOMAIN LocalCandidates :
                             LocalCandidates[c] =
                                WindowSegment(NormalizedScores, video.fps, i,
                                              LocalWindowSize)[k]

\* a returned segment is the window of w samples starting at a multiple of
\* w \div 2, extended to MIN_CLIP_LENGTH when shorter
IsWindowOf(seg, w) ==
    \E i \in 0..(Len(RawScores) - w) :
        /\ i % (w \div 2) = 0
        /\ seg.start <= RawScores[i + 1].time
        /\ seg.end >= RawScores[i + w].time
        /\ seg.duration = Max2(2 * video.fps * MIN_CLIP_LENGTH,
                               RawScores[i + w].time - RawScores[i + 1].time)
        /\ seg.start + seg.end = RawScores[i + 1].time + RawScores[i + w].time

\* the local run returned segments of windows of w samples, none if w < 2
WindowsOfLength(w) ==
    IF w < 2 THEN result = <<>>
    ELSE \A k \in DOMAIN result : IsWindowOf(result[k], w)

\* fps * T / s rounded to the nearest integer (a half to the even neighbour,
\* as Python's round), and truncated
RoundedQuotient(a, b) ==
    LET q == a \div b
        r == a % b
    IN IF 2 * r > b \/ (2 * r = b /\ q % 2 = 1) THEN q + 1 ELSE q

TruncatedQuotient(a, b) == CHOOSE q \in 0..a : q * b <= a /\ a < (q + 1) * b

\* C18 as stated: the windows are round(fps * T / s) samples long, rounded to
\* the nearest and not truncated, and start every window_length // 2 samples.
C18_WindowLengthRounded ==
    LocalReturned /\ RawScores # <<>> =>
        WindowsOfLength(RoundedQuotient(video.fps * segment_duration[1],
                                        frame_sample_rate))

\* C18 amended: the windows are int(fps * T / s) samples long, truncated, and
\* start every window_length // 2 samples.
C18_WindowLengthTruncated ==
    LocalReturned /\ RawScores # <<>> =>
        WindowsOfLength(TruncatedQuotient(video.fps * segment_duration[1],
                                          frame_sample_rate))

\* fps * T / s = 80/30: a segment of a window of 2 samples, not of 3
C18_Witness ==
    /\ LocalReturned
    /\ (video.fps * segment_duration[1]) % frame_sample_rate
          > frame_sample_rate \div 2
    /\ result # <<>>
    /\ result[1].duration = 2 * frame_sample_rate

\* C19: a window shorter than MIN_CLIP_LENGTH is extended by
\* (MIN_CLIP_LENGTH - duration)/2 on each side, the start clipped at 0 and
\* the end at the total duration of the video (frames / fps, 2 * frames
\* ticks) and at no earlier time: every scanned window above the threshold
\* whose interval so extended is within the duration limits is a candidate
\* with exactly that interval.
C19_EndClippedAtTotalDuration ==
    WindowsScanned =>
        \A i \in WindowStarts(Len(RawScores), LocalWindowSize, LocalStepSize) :
            LET start_time0 == RawScores[i + 1].time
                end_time0   == RawScores[i + LocalWindowSize].time
                min_len     == 2 * video.fps * MIN_CLIP_LENGTH
                extension   == (min_len - (end_time0 - start_time0)) \div 2
                start_time  == Max2(0, start_time0 - extension)
                end_time    == Min2(2 * video.frames, end_time0 + extension)
            IN /\ AboveThreshold(NormalizedScores, i, LocalWindowSize)
               /\ end_time0 - start_time0 < min_len
               /\ DurationWithinLimits(end_time - start_time, video.fps)
               => \E c \in DOMAIN LocalCandidates :
                     /\ LocalCandidates[c].start = start_time
                     /\ LocalCandidates[c].end = end_time

\* lines 253-262 for the scanned window at start index i: its interval after
\* the extension and the clipping, in ticks
ExtendedStart(i) ==
    LET start_time0 == RawScores[i + 1].time
        duration0   == RawScores[i + LocalWindowSize].time - start_time0
        min_len     == 2 * video.fps * MIN_CLIP_LENGTH
    IN IF duration0 < min_len
       THEN Max2(0, start_time0 - (min_len - duration0) \div 2)
       ELSE start_time0

ExtendedEnd(i) ==
    LET end_time0 == RawScores[i + LocalWindowSize].time
        duration0 == end_time0 - RawScores[i + 1].time
        min_len   == 2 * video.fps * MIN_CLIP_LENGTH
    IN IF duration0 < min_len
       THEN Min2(RawScores[Len(RawScores)].time,
                 end_time0 + (min_len - duration0) \div 2)
       ELSE end_time0

\* the scanned windows whose average is above the threshold
WindowsAbove ==
    { i \in WindowStarts(Len(RawScores), LocalWindowSize, LocalStepSize) :
        AboveThreshold(NormalizedScores, i, LocalWindowSize) }

IsCandidate(i) ==
    \E c \in DOMAIN LocalCandidates :
        /\ LocalCandidates[c].start = ExtendedStart(i)
        /\ LocalCandidates[c].end = ExtendedEnd(i)
        /\ LocalCandidates[c].duration = ExtendedEnd(i) - ExtendedStart(i)

\* C20: a window above the threshold becomes a segment if and only if its
\* duration after extension and clipping lies in
\* [MIN_CLIP_LENGTH, MAX_CLIP_LENGTH]; one longer than MAX_CLIP_LENGTH is
\* rejected, never truncated, one still shorter than MIN_CLIP_LENGTH after
\* the clipping is rejected, and there are no other candidates.
C20_SegmentIffDurationWithinLimits ==
    WindowsScanned =>
        /\ \A i \in WindowsAbove :
              IsCandidate(i) <=>
                 /\ ExtendedEnd(i) - ExtendedStart(i)
                       >= 2 * video.fps * MIN_CLIP_LENGTH
                 /\ ExtendedEnd(i) - ExtendedStart(i)
                       <= 2 * video.fps * MAX_CLIP_LENGTH
        /\ \A c \in DOMAIN LocalCandidates :
              \E i \in WindowsAbove :
                 /\ LocalCandidates[c].start = ExtendedStart(i)
                 /\ LocalCandidates[c].end = ExtendedEnd(i)
        /\ \A k \in DOMAIN result :
              \E c \in DOMAIN LocalCandidates : LocalCandidates[c] = result[k]

\* a window above the threshold that is longer than MAX_CLIP_LENGTH was
\* rejected, not truncated
C20_Witness ==
    /\ WindowsScanned
    /\ \E i \in WindowsAbove :
          ExtendedEnd(i) - ExtendedStart(i) > 2 * video.fps * MAX_CLIP_LENGTH
    /\ result = <<>>

\* the normalized scores of the local run, as a sequence of numerators
NormalizedValues ==
    [j \in DOMAIN NormalizedScores |-> NormalizedScores[j].normalized_score]

\* the sum of the normalized scores of the window of LocalWindowSize samples
\* at start index i
WindowSum(i) == SumOf(NormalizedValues, i + 1, i + LocalWindowSize)

\* The quantities the threshold test compares, for the scores x and windows
\* of w samples.  With n scores of sum S and square sum Q, mean + 0.5 * std
\* is (S + sqrt(n*Q - S*S) / 2) / n, so with
\*   MeanExcess = n * w * (window average - mean),  SpreadSquare = (n * std)^2
\* the window average exceeds the threshold iff MeanExcess > 0 and
\* 4 * MeanExcess^2 > w^2 * SpreadSquare.
MeanExcess(x, i, w) ==
    Len(x) * SumOf(x, i + 1, i + w) - w * SumOf(x, 1, Len(x))

SpreadSquare(x) ==
    Len(x) * SumOf([j \in DOMAIN x |-> x[j] * x[j]], 1, Len(x))
       - SumOf(x, 1, Len(x)) * SumOf(x, 1, Len(x))

\* window average > mean + 0.5 * std, resp. = mean + 0.5 * std
StrictlyAboveThreshold(x, i, w) ==
    /\ MeanExcess(x, i, w) > 0
    /\ 4 * MeanExcess(x, i, w) * MeanExcess(x, i, w) > w * w * SpreadSquare(x)

EqualsThreshold(x, i, w) ==
    /\ MeanExcess(x, i, w) >= 0
    /\ 4 * MeanExcess(x, i, w) * MeanExcess(x, i, w) = w * w * SpreadSquare(x)

\* the candidate the window at start index i gives rise to, if any
CandidateOfWindow(seg, i) ==
    /\ seg.start = ExtendedStart(i)
    /\ seg.end = ExtendedEnd(i)
    /\ seg.score = 2 * WindowSum(i)

SortedCandidates == SortedByScore(LocalCandidates)

\* the elements of s at the indices in K, in the order of s
RECURSIVE Restrict(_, _)
Restrict(s, K) ==
    IF s = <<>> THEN <<>>
    ELSE Restrict(SubSeq(s, 1, Len(s) - 1), K)
         \o (IF Len(s) \in K THEN <<s[Len(s)]>> ELSE <<>>)

\* K is the set of indices the walk in sorted order accepts: k is accepted
\* iff it is disjoint from, or only touches, every index accepted before it
AcceptedIndices(s, K) ==
    \A k \in DOMAIN s :
        k \in K <=> \A j \in K : j < k =>
                        (s[k].end <= s[j].start \/ s[k].start >= s[j].end)

\* C22: the overlap resolver walks the candidates in sorted order and accepts
\* a candidate iff, for every segment accepted before it, candidate.end <=
\* accepted.start or candidate.start >= accepted.end; segments that merely
\* touch at an endpoint are both kept, and the output is a subsequence of the
\* input.
C22_GreedyAcceptance ==
    LocalReturned =>
        LET sorted == SortedCandidates
        IN \E K \in SUBSET (DOMAIN sorted) :
              /\ AcceptedIndices(sorted, K)
              /\ result = Restrict(sorted, K)

\* two returned segments touch at an endpoint, and a candidate was rejected
C22_Witness ==
    /\ LocalReturned
    /\ \E a, b \in DOMAIN result : result[a].end = result[b].start
    /\ Len(result) < Len(LocalCandidates)

\* the remote request came back with status 200
Status200 ==
    pc = "DONE" /\ response.outcome = "response" /\ response.status_code = 200

\* the segment an item of a 200 body is mapped to: the times copied, the
\* scores copied where the item has them
MappedItem(item) ==
    [start      |-> item.start_time,
     end        |-> item.end_time,
     duration   |-> item.end_time - item.start_time,
     score      |-> IF "action_score" \in DOMAIN item
                    THEN item.action_score ELSE 1,
     confidence |-> IF "confidence" \in DOMAIN item
                    THEN item.confidence ELSE 1]

\* C23 as stated: on an HTTP 200 response the remote items are mapped one to
\* one into segments in the order received, with start, end, score and
\* confidence copied and duration = end_time - start_time, and the LOCAL
\* pipeline is not run.
C23_Status200MapsItems ==
    Status200 =>
        /\ local_runs = 0
        /\ Len(result) = Len(response.segments)
        /\ \A k \in DOMAIN result :
              LET item == response.segments[k]
              IN /\ result[k].start = item.start_time
                 /\ result[k].end = item.end_time
                 /\ result[k].duration = item.end_time - item.start_time

\* C23 amended: on an HTTP 200 response whose body parses (a JSON object
\* whose items all have start_time and end_time) the items are mapped one to
\* one into segments in the order received, the times copied, duration =
\* end_time - start_time, score and confidence copied or 0.5 where the item
\* lacks them, with no clamping, sorting or overlap removal and without
\* running LOCAL; on a 200 response whose body does not parse LOCAL is run
\* once.
C23_ParsedItemsMappedInOrder ==
    Status200 =>
        IF api_exc = NoExc
        THEN /\ local_runs = 0
             /\ result = [k \in DOMAIN response.segments |->
                             MappedItem(response.segments[k])]
        ELSE /\ api_exc \in {"JSONDecodeError", "AttributeError", "KeyError"}
             /\ local_runs = 1

\* a 200 body of two overlapping items shorter than MIN_CLIP_LENGTH, the
\* lower-scored one first, returned as they came
C23_Witness ==
    /\ Status200
    /\ api_exc = NoExc
    /\ Len(result) = 2
    /\ result[1].score < result[2].score
    /\ Overlap(result[1], result[2])
    /\ result[1].duration < MIN_CLIP_LENGTH
    /\ result[1].confidence # result[1].score

\* C24: when zero or one motion samples are collected (no readable frame, or
\* too few frames for a second sample), LOCAL detection returns the empty
\* sequence, and returns it normally, for every frame rate, target duration
\* and stride, those with a window length of 0 or 1 included.
C24_FewSamplesNoSegments ==
    LocalReturned
    /\ NumMotionSamples(video.frames, frame_sample_rate) <= 1
        => /\ result = <<>>
           /\ propagated = NoExc

\* one motion sample at a positive frame rate and a window length of 1, so
\* that the step of the window scan is 0
C24_Witness ==
    /\ LocalReturned
    /\ video.opens
    /\ video.fps > 0
    /\ video.frames = frame_sample_rate + 1
    /\ Len(RawScores) = 1
    /\ LocalWindowSize = 1
    /\ result = <<>>
    /\ propagated = NoExc

\* C25: a video whose reported frame rate is not positive is unanalyzable:
\* for every frame count LOCAL detection returns the empty sequence, no
\* sample and no segment gets a timestamp computed from that rate, and
\* nothing is raised to the caller.
C25_NoRateNoSegments ==
    LocalReturned /\ video.opens /\ video.fps <= 0
        => /\ result = <<>>
           /\ propagated = NoExc
           /\ RawScores = <<>>
           /\ LocalCandidates = <<>>

\* a video without frame rate whose frames give several motion samples of
\* different magnitude
C25_Witness ==
    /\ LocalReturned
    /\ video.opens
    /\ video.fps = 0
    /\ NumMotionSamples(video.frames, frame_sample_rate) >= 3
    /\ \E j, k \in DOMAIN video.flow : video.flow[j] # video.flow[k]
    /\ local_exc = "ZeroDivisionError"
    /\ result = <<>>

\* C26: every LOCAL segment has score equal to its window's average
\* normalized score and confidence = min(1.0, 1.5 * score); both lie in
\* [0,1] and confidence >= score.  Score and confidence are numerators over
\* ScoreUnit, the window average being 2 * WindowSum(i) / ScoreUnit.
C26_ScoreAndConfidence ==
    LocalReturned =>
        \A k \in DOMAIN result :
            /\ \E i \in WindowStarts(Len(RawScores), LocalWindowSize,
                                     LocalStepSize) :
                  CandidateOfWindow(result[k], i)
            /\ 2 * result[k].confidence
                  = Min2(2 * ScoreUnit, 3 * result[k].score)
            /\ 0 <= result[k].score /\ result[k].score <= ScoreUnit
            /\ 0 <= result[k].confidence /\ result[k].confidence <= ScoreUnit
            /\ result[k].confidence >= result[k].score

\* a returned segment whose score lies between 2/3 and 1, so that 1.5 times
\* the score exceeds 1.0 and the confidence is capped at 1.0
C26_Witness ==
    /\ LocalReturned
    /\ \E k \in DOMAIN result :
          /\ 3 * result[k].score > 2 * ScoreUnit
          /\ result[k].score < ScoreUnit
          /\ result[k].confidence = ScoreUnit

\* a run has returned that differs from the run before it, on the same
\* video, in self.motion_threshold only
SecondRunReturned == calls >= 2 /\ LocalReturned

C28_BestKeptAndMaximal ==
    LocalReturned =>
        LET candidates == LocalCandidates
            Kept(p) == \E k \in DOMAIN result : result[k] = candidates[p]
            First(p) == \A q \in DOMAIN candidates :
                           \/ q = p
                           \/ candidates[p].score > candidates[q].score
                           \/ /\ candidates[p].score = candidates[q].score
                              /\ p < q
        IN /\ \A p \in DOMAIN candidates : First(p) => Kept(p)
           /\ \A p \in DOMAIN candidates :
                 ~Kept(p) =>
                    \E k \in DOMAIN result :
                       /\ Overlap(result[k], candidates[p])
                       /\ result[k].score >= candidates[p].score

\* a candidate was rejected for a kept one of strictly higher score that it
\* overlaps and that comes after it in candidate order
C28_Witness ==
    /\ LocalReturned
    /\ \E p, q \in DOMAIN LocalCandidates :
          /\ p < q
          /\ ~InResult(LocalCandidates[p])
          /\ InResult(LocalCandidates[q])
          /\ Overlap(LocalCandidates[p], LocalCandidates[q])
          /\ LocalCandidates[q].score > LocalCandidates[p].score

\* C29: every segment returned by the LOCAL path satisfies
\* 0 <= start < end <= total video duration (frames / fps, 2 * frames ticks)
\* and duration = end - start, whatever the window position and extension.
C29_SegmentWithinVideo ==
    LocalReturned =>
        \A k \in DOMAIN result :
            /\ 0 <= result[k].start
            /\ result[k].start < result[k].end
            /\ result[k].end <= 2 * video.frames
            /\ result[k].end - result[k].start = result[k].duration

\* two segments were returned, one of a window extended down to time 0 and
\* one of a window extended up to the time of the last motion sample
C29_Witness ==
    /\ WindowsScanned
    /\ Len(result) = 2
    /\ \E k \in DOMAIN result :
          /\ result[k].start = 0
          /\ result[k].duration = 2 * video.fps * MIN_CLIP_LENGTH
    /\ \E k \in DOMAIN result :
          /\ result[k].end = RawScores[Len(RawScores)].time
          /\ result[k].end < 2 * video.frames

\* the remote request of this invocation ended in a status other than 200
NonOKStatus == response.outcome = "response" /\ response.status_code # 200

\* C30: when the remote request ends in a non-200 status, the LOCAL pipeline
\* is run exactly once for that invocation: it is never run a second time by
\* the exception handler of _detect_segments_with_api, and the invocation
\* ends with one LOCAL run, whose result it returns.
C30_LocalOnceAfterNonOKStatus ==
    /\ [](NonOKStatus => local_runs <= 1)
    /\ [](NonOKStatus /\ local_runs = 1 => pc = "DONE")
    /\ NonOKStatus ~> (pc = "DONE" /\ local_runs = 1 /\ call_site = "else")

\* a status of 500 was answered by one LOCAL run, called from the else
\* branch, that found a segment
C30_Witness ==
    /\ NonOKStatus
    /\ pc = "DONE"
    /\ call_site = "else"
    /\ local_runs = 1
    /\ result # <<>>

====
